---- MODULE Spec2Model ----
(***************************************************************************)
(* The anonymous identity and vote ledger of the Debate application        *)
(* (src/Ego.py) together with the admin delete-question operation that is  *)
(* registered into it (src/admin_app.py).                                  *)
(*                                                                         *)
(* Tables are sets of rows; a row is a record with the columns of the      *)
(* schema.  A nullable value is a sequence of length 0 (NULL / None) or 1. *)
(* An HMAC-SHA256 digest is modelled as the pair of its key and message:   *)
(* equal digests exactly for equal (key, message), i.e. the hash is taken  *)
(* to be collision free.                                                   *)
(*                                                                         *)
(* Spec        the answer-vote ledger under the clock: one request at a    *)
(*             time, each handler one action, and time passing.            *)
(* SpecLedgers every handler (both ledgers, posts, the admin delete), one  *)
(*             request at a time, at one instant of the clock.             *)
(* SpecConc    vote_answer on several workers, one SQL statement (or one   *)
(*             write with its commit) per step.                            *)
(* SpecQ       the question-vote ledger under the clock, one request at a  *)
(*             time.                                                       *)
(* SpecConcQ   vote_question on several workers, one SQL statement per     *)
(*             step.                                                       *)
(* SpecSecret  the answer-vote ledger across a change of the server secret.*)
(* SpecAddr    make_ip_hash applied to pairs of address texts.             *)
(* SpecRetry   the answer-vote ledger while time passes without end and a  *)
(*             rejected voter keeps sending its request again.             *)
(***************************************************************************)
EXTENDS Integers, Sequences, FiniteSets, TLC

\* ---------------------------------------------------------------- bounds
\* AUTOINCREMENT ids the model lets each table hand out.
MaxQuestions == 2
MaxAnswers == 2
MaxAvoteId == 2
MaxQvoteId == 2
\* The qvotes ids handed out where both ledgers run together (SpecLedgers).
MaxLedgersQvoteId == 1
\* Browser sessions (cookie jars) that send requests.
NumSessions == 2
\* The clock: ticks per second (datetime.utcnow() has sub-second digits,
\* datetime('now', ...) in SQL prints whole seconds) and the last tick.
TicksPerSec == 2
MaxTime == 4
\* Concurrent workers of SpecConc and SpecConcQ.
NumWorkers == 2
\* Values the server secret takes: the first, and the one after a change.
NumSecrets == 2

\* The look-back of the soft cap, '-1 day', in seconds of the model's clock
\* (a day of TicksPerSec * DaySecs ticks stands for the code's 86400 s).
DaySecs == 1

\* ------------------------------------------------------------ value sets
NULL == << >>
Some(x) == << x >>

Sessions == 1 .. NumSessions
\* The values of the server secret, in the order the process comes to hold
\* them: FLASK_SECRET as configured, or os.urandom(24) drawn at each start.
SecretValues == << "k1", "k2", "k3" >>
Workers == 1 .. NumWorkers

\* An address string, as the code sees it: whether it contains ":" and the
\* parts str.split gives on ":" (when it does) or on "." (when it does not).
IPv4(a, b, c, d) == [colon |-> FALSE, parts |-> << a, b, c, d >>]
\* Two addresses of one /24 (Addr1, Addr2) and one of another (Addr3).
Addr1 == IPv4("10", "0", "0", "1")
Addr2 == IPv4("10", "0", "0", "2")
Addr3 == IPv4("10", "0", "1", "1")
\* What a request carries of its origin: the X-Forwarded-For header (absent,
\* or its comma separated entries) and the peer address of the connection.
Origins ==
    { [xff |-> NULL, remote_addr |-> Addr1],
      [xff |-> NULL, remote_addr |-> Addr3],
      [xff |-> Some(<< Addr2, Addr3 >>), remote_addr |-> Addr3] }

\* admin.py: the credentials the (unregistered) admin blueprint is set up with.
ADMIN_USER == "admin"
ADMIN_PASSWORD == "change-me-now"
\* The Authorization header of a request: absent, or Basic credentials.
Authorizations ==
    { NULL,
      Some([username |-> ADMIN_USER, password |-> "guess"]),
      Some([username |-> ADMIN_USER, password |-> ADMIN_PASSWORD]) }
\* admin.py check_auth: the header carries the configured user and password.
check_auth(auth_header) ==
    /\ auth_header # NULL
    /\ auth_header[1].username = ADMIN_USER
    /\ auth_header[1].password = ADMIN_PASSWORD

VARIABLES
    SECRET,     \* the server secret (HMAC key)
    questions,  \* table questions: set of ids
    answers,    \* table answers: rows [id, question_id]
    avotes,     \* table avotes
    qvotes,     \* table qvotes
    sqlite_sequence, \* last AUTOINCREMENT id handed out, per table
    session,    \* per browser session: NULL or Some(anon_id)
    now,        \* the clock, in ticks
    last,       \* the vote request handled last as one action: who, what, the response
    req,        \* SpecConc: per worker, the vote_answer request it is handling
    hashing     \* SpecAddr: the addresses handed to make_ip_hash and their digests

vars ==
    << SECRET, questions, answers, avotes, qvotes, sqlite_sequence, session, now,
       last, req, hashing >>

tables == << questions, answers, avotes, qvotes, sqlite_sequence >>

\* ------------------------------------------------------------- helpers
Min(a, b) == IF a < b THEN a ELSE b

\* Ego.py make_anon_hash: hmac(SECRET, anon_id).
make_anon_hash(anon_id) == [key |-> SECRET, msg |-> anon_id]

\* Ego.py client_ip: the first entry of X-Forwarded-For, else the peer address.
client_ip(xff, remote_addr) == IF xff = NULL THEN remote_addr ELSE Head(xff[1])

\* Ego.py make_ip_hash, the normalisation: first 4 ":" groups, or first 3
\* octets and "0" of a 4 part dotted address, else the address itself.
\* The address kept whole: no truncation to the subnet.
subnet_of_whole_address(ip) == ip

subnet_of(ip) ==
    IF ip.colon
    THEN [colon |-> TRUE, parts |-> SubSeq(ip.parts, 1, Min(4, Len(ip.parts)))]
    ELSE IF Len(ip.parts) = 4
         THEN [colon |-> FALSE, parts |-> SubSeq(ip.parts, 1, 3) \o << "0" >>]
         ELSE ip

\* The subnet digest taken without the secret.
make_ip_hash_unkeyed(ip) == [key |-> "", msg |-> subnet_of(ip)]

make_ip_hash(ip) == [key |-> SECRET, msg |-> subnet_of(ip)]

\* The whole second a tick lies in: what 'YYYY-MM-DD HH:MM:SS' keeps of it.
SecOf(t) == t \div TicksPerSec

\* The cut-off compared with > in place of >=.
within_last_day_strict(created_at, t) == (created_at \div TicksPerSec) > (t \div TicksPerSec) - DaySecs

\* created_at >= datetime('now','-1 day'): created_at is the text
\* 'YYYY-MM-DD HH:MM:SS[.ffffff]' that utcnow() was stored as, the right side
\* the text 'YYYY-MM-DD HH:MM:SS' of the current second minus one day, and
\* the comparison is of texts: a text that extends the cut-off text is >= it.
within_last_day(created_at, t) == SecOf(created_at) >= SecOf(t) - DaySecs

\* The answer looked up by its id alone, whatever question it belongs to.
answer_of_any_question(ans, aid, qid) == \E a \in ans : a.id = aid

\* SELECT 1 FROM answers WHERE id=? AND question_id=?
answer_of_question(ans, aid, qid) == \E a \in ans : a.id = aid /\ a.question_id = qid

\* The cap's SELECT without its ip_hash=? condition.
recent_other_any_subnet(av, qid, ip_hash, anon_hash, t) ==
    \E r \in av :
        /\ r.question_id = qid
        /\ r.anon_hash # anon_hash
        /\ (r.created_at \div TicksPerSec) >= (t \div TicksPerSec) - DaySecs

\* SELECT 1 FROM avotes WHERE question_id=? AND ip_hash=? AND anon_hash<>?
\*   AND created_at >= datetime('now','-1 day') LIMIT 1
\* The cap applied after the caller's row is looked up, to new votes only.
recent_other_unless_voted(av, qid, ip_hash, anon_hash, t) ==
    /\ ~ \E e \in av : e.question_id = qid /\ e.anon_hash = anon_hash
    /\ \E r \in av :
           /\ r.question_id = qid
           /\ r.ip_hash = ip_hash
           /\ r.anon_hash # anon_hash
           /\ within_last_day(r.created_at, t)

recent_other(av, qid, ip_hash, anon_hash, t) ==
    \E r \in av :
        /\ r.question_id = qid
        /\ r.ip_hash = ip_hash
        /\ r.anon_hash # anon_hash
        /\ within_last_day(r.created_at, t)

\* SELECT id, answer_id FROM avotes WHERE question_id=? AND anon_hash=?
existing_avote(av, qid, anon_hash) ==
    { r \in av : r.question_id = qid /\ r.anon_hash = anon_hash }

\* SELECT COUNT(*) FROM avotes WHERE question_id=? AND answer_id=?
count_avotes(av, qid, aid) ==
    Cardinality({ r \in av : r.question_id = qid /\ r.answer_id = aid })

\* The avotes schema without its UNIQUE(question_id, anon_hash).
avotes_no_unique(av, qid, anon_hash) == FALSE

\* UNIQUE(question_id, anon_hash) of avotes: would inserting this key break it.
avotes_unique_violation(av, qid, anon_hash) ==
    \E r \in av : r.question_id = qid /\ r.anon_hash = anon_hash

\* DELETE FROM avotes WHERE answer_id=(the answer of row id): every vote of
\* that answer goes, not the one row.
delete_avote_of_answer(av, id) ==
    { r \in av : \A e \in av : e.id = id => r.answer_id # e.answer_id }

\* DELETE FROM avotes WHERE id=?
delete_avote(av, id) == { r \in av : r.id # id }

\* UPDATE avotes SET answer_id=?, ip_hash=?, created_at=? WHERE id=?
\* The move as two statements, seen between them: the row is deleted and
\* the new one is not yet inserted.
update_avote_delete_first(av, id, aid, ip_hash, t) == { r \in av : r.id # id }

\* The UPDATE setting answer_id alone.
update_avote_answer_only(av, id, aid, ip_hash, t) ==
    { IF r.id = id THEN [r EXCEPT !.answer_id = aid] ELSE r : r \in av }

update_avote(av, id, aid, ip_hash, t) ==
    { IF r.id = id
      THEN [r EXCEPT !.answer_id = aid, !.ip_hash = ip_hash, !.created_at = t]
      ELSE r : r \in av }

\* INSERT INTO avotes(question_id, answer_id, anon_hash, ip_hash, created_at)
insert_avote(av, id, qid, aid, anon_hash, ip_hash, t) ==
    av \cup { [id |-> id, question_id |-> qid, answer_id |-> aid,
               anon_hash |-> anon_hash, ip_hash |-> ip_hash, created_at |-> t] }


\* ------------------------------------------------------------ responses
\* jsonify(ok=False, error="not_found"), 404
not_found ==
    [status |-> 404, error |-> "not_found", voted |-> NULL, count |-> NULL,
     cleared_answer_id |-> NULL, prev_count |-> NULL]

\* jsonify(ok=False, error="ip_cap"), 429
ip_cap ==
    [status |-> 429, error |-> "ip_cap", voted |-> NULL, count |-> NULL,
     cleared_answer_id |-> NULL, prev_count |-> NULL]

\* An exception that leaves the view function (sqlite3.IntegrityError): Flask
\* answers 500 and the connection is closed without a commit.
server_error ==
    [status |-> 500, error |-> "IntegrityError", voted |-> NULL, count |-> NULL,
     cleared_answer_id |-> NULL, prev_count |-> NULL]

\* jsonify(ok=True, voted=..., count=..., cleared_answer_id=..., prev_count=...)
ok_response(voted, count, cleared_answer_id, prev_count) ==
    [status |-> 200, error |-> "", voted |-> Some(voted), count |-> Some(count),
     cleared_answer_id |-> cleared_answer_id, prev_count |-> prev_count]

\* The write with a repeated vote for the answer already voted left alone
\* (the row kept, voted=true) in place of the toggle-off.
vote_answer_write_idempotent(av, seq, existing, qid, aid, anon_hash, ip_hash, t) ==
    IF existing # {}
    THEN LET e == CHOOSE r \in existing : TRUE IN
         IF e.answer_id = aid
         THEN [avotes |-> av, seq |-> seq, raised |-> FALSE,
               voted |-> TRUE, cleared_answer_id |-> NULL]
         ELSE [avotes |-> { IF r.id = e.id
                            THEN [r EXCEPT !.answer_id = aid, !.ip_hash = ip_hash,
                                           !.created_at = t]
                            ELSE r : r \in av },
               seq |-> seq, raised |-> FALSE, voted |-> TRUE,
               cleared_answer_id |-> Some(e.answer_id)]
    ELSE [avotes |-> av \cup { [id |-> seq + 1, question_id |-> qid, answer_id |-> aid,
                                anon_hash |-> anon_hash, ip_hash |-> ip_hash,
                                created_at |-> t] },
          seq |-> seq + 1, raised |-> FALSE, voted |-> TRUE,
          cleared_answer_id |-> NULL]

\* ------------------------------------------------- vote_answer, its parts
\* Lines 711-734: the branch on the row found for (question, device) and its
\* one write.  `existing` is the result of the earlier SELECT (empty or one
\* row); `seq` the last id handed out.  The INSERT raises IntegrityError when
\* the table already holds the key.
vote_answer_write(av, seq, existing, qid, aid, anon_hash, ip_hash, t) ==
    IF existing # {}
    THEN LET e == CHOOSE r \in existing : TRUE IN
         IF e.answer_id = aid
         THEN [avotes |-> delete_avote(av, e.id), seq |-> seq, raised |-> FALSE,
               voted |-> FALSE, cleared_answer_id |-> NULL]
         ELSE [avotes |-> update_avote(av, e.id, aid, ip_hash, t), seq |-> seq,
               raised |-> FALSE, voted |-> TRUE,
               cleared_answer_id |-> Some(e.answer_id)]
    ELSE IF avotes_unique_violation(av, qid, anon_hash)
         THEN [avotes |-> av, seq |-> seq, raised |-> TRUE, voted |-> FALSE,
               cleared_answer_id |-> NULL]
         ELSE [avotes |-> insert_avote(av, seq + 1, qid, aid, anon_hash, ip_hash, t),
               seq |-> seq + 1, raised |-> FALSE, voted |-> TRUE,
               cleared_answer_id |-> NULL]

\* The count of the answer left, as it was before the UPDATE took the vote away.
prev_count_before_update(av, qid, cleared_answer_id) ==
    IF cleared_answer_id = NULL
    THEN NULL
    ELSE Some(Cardinality({ r \in av : r.question_id = qid
                                        /\ r.answer_id = cleared_answer_id[1] }) + 1)

\* Line 730: after a move, the count of the answer the vote left.
prev_count_of(av, qid, cleared_answer_id) ==
    IF cleared_answer_id = NULL
    THEN NULL
    ELSE Some(count_avotes(av, qid, cleared_answer_id[1]))

\* The response with the count of the answer as it was before the write.
vote_answer_response_stale(av, w, qid, aid) ==
    IF w.raised
    THEN server_error
    ELSE ok_response(w.voted,
                     Cardinality({ r \in av : r.question_id = qid /\ r.answer_id = aid })
                         + (IF w.voted THEN -1 ELSE 1),
                     w.cleared_answer_id,
                     IF w.cleared_answer_id = NULL
                     THEN NULL
                     ELSE Some(Cardinality({ r \in av : r.question_id = qid
                                   /\ r.answer_id = w.cleared_answer_id[1] })))

\* Lines 730 and 736-737: the counts read after the write, and the response.
vote_answer_response(av, w, qid, aid) ==
    IF w.raised
    THEN server_error
    ELSE ok_response(w.voted, count_avotes(av, qid, aid), w.cleared_answer_id,
                     prev_count_of(av, qid, w.cleared_answer_id))

\* vote_answer from its first line to its return when nothing runs in
\* between: the tables it leaves and what it answers.
vote_answer_run(av, seq, ans, qid, aid, anon_hash, ip_hash, t) ==
    IF ~answer_of_question(ans, aid, qid)
    THEN [avotes |-> av, seq |-> seq, resp |-> not_found]
    ELSE IF recent_other(av, qid, ip_hash, anon_hash, t)
    THEN [avotes |-> av, seq |-> seq, resp |-> ip_cap]
    ELSE LET w == vote_answer_write(av, seq, existing_avote(av, qid, anon_hash),
                                    qid, aid, anon_hash, ip_hash, t)
         IN  [avotes |-> w.avotes, seq |-> w.seq,
              resp |-> vote_answer_response(w.avotes, w, qid, aid)]

\* ------------------------------------------------ vote_question, its parts
\* The lookup without its anon_hash=? condition: any device's row.
existing_qvote_any_identity(qv, qid, anon_hash) == { r \in qv : r.question_id = qid }

\* SELECT id FROM qvotes WHERE question_id=? AND anon_hash=?
existing_qvote(qv, qid, anon_hash) ==
    { r \in qv : r.question_id = qid /\ r.anon_hash = anon_hash }

\* SELECT COUNT(*) FROM qvotes WHERE question_id=?
count_qvotes(qv, qid) == Cardinality({ r \in qv : r.question_id = qid })

\* UNIQUE(question_id, anon_hash) of qvotes left out of the schema.
qvotes_no_unique(qv, qid, anon_hash) == FALSE

\* UNIQUE(question_id, anon_hash) of qvotes: would inserting this key break it.
qvotes_unique_violation(qv, qid, anon_hash) ==
    \E r \in qv : r.question_id = qid /\ r.anon_hash = anon_hash

\* Lines 680-687: the branch on the row found and its one write.  `existing`
\* is the result of the earlier SELECT; the INSERT raises IntegrityError when
\* the table already holds the key.
vote_question_write(qv, seq, existing, qid, anon_hash, t) ==
    IF existing # {}
    THEN [qvotes |-> { r \in qv : r.id # (CHOOSE e \in existing : TRUE).id },
          seq |-> seq, raised |-> FALSE, voted |-> FALSE]
    ELSE IF qvotes_unique_violation(qv, qid, anon_hash)
         THEN [qvotes |-> qv, seq |-> seq, raised |-> TRUE, voted |-> FALSE]
         ELSE [qvotes |-> qv \cup { [id |-> seq + 1, question_id |-> qid,
                                     anon_hash |-> anon_hash, created_at |-> t] },
               seq |-> seq + 1, raised |-> FALSE, voted |-> TRUE]

\* Lines 689-690: the count read after the write, and the response.
vote_question_response(qv, w, qid) ==
    IF w.raised
    THEN server_error
    ELSE ok_response(w.voted, count_qvotes(qv, qid), NULL, NULL)

\* vote_question with the soft cap of vote_answer put in front of its write:
\* 429 when another identity holds a row of the last day on the question.
vote_question_run_capped(qv, seq, qs, qid, anon_hash, t) ==
    IF qid \notin qs
    THEN [qvotes |-> qv, seq |-> seq, resp |-> not_found]
    ELSE IF \E r \in qv : /\ r.question_id = qid
                          /\ r.anon_hash # anon_hash
                          /\ within_last_day(r.created_at, t)
    THEN [qvotes |-> qv, seq |-> seq, resp |-> ip_cap]
    ELSE LET w == vote_question_write(qv, seq, existing_qvote(qv, qid, anon_hash),
                                      qid, anon_hash, t)
         IN  [qvotes |-> w.qvotes, seq |-> w.seq,
              resp |-> vote_question_response(w.qvotes, w, qid)]

\* vote_question from its first line to its return when nothing runs in
\* between: the table it leaves and what it answers.
vote_question_run(qv, seq, qs, qid, anon_hash, t) ==
    IF qid \notin qs
    THEN [qvotes |-> qv, seq |-> seq, resp |-> not_found]
    ELSE LET w == vote_question_write(qv, seq, existing_qvote(qv, qid, anon_hash),
                                      qid, anon_hash, t)
         IN  [qvotes |-> w.qvotes, seq |-> w.seq,
              resp |-> vote_question_response(w.qvotes, w, qid)]

\* ------------------------------------------------------------- the state
\* A worker with no request: the locals of vote_answer, unset.
idle ==
    [pc |-> "idle", qid |-> 0, aid |-> 0, anon_hash |-> NULL, ip_hash |-> NULL,
     existing |-> {}, voted |-> NULL, cleared_answer_id |-> NULL, prev_count |-> NULL,
     resp |-> NULL]

Init ==
    /\ SECRET = SecretValues[1]
    /\ questions = {}
    /\ answers = {}
    /\ avotes = {}
    /\ qvotes = {}
    /\ sqlite_sequence = [questions |-> 0, answers |-> 0, avotes |-> 0, qvotes |-> 0]
    /\ session = [s \in Sessions |-> NULL]
    /\ now = 0
    /\ last = [op |-> "none", s |-> 0, qid |-> 0, aid |-> 0, resp |-> NULL]
    /\ req = [w \in Workers |-> idle]
    /\ hashing = [ip |-> << >>, ip_hash |-> NULL]

\* Which of SecretValues the process holds: the tokens minted under an
\* earlier secret are not drawn again under a later one.
secret_index == CHOOSE i \in 1 .. Len(SecretValues) : SecretValues[i] = SECRET

\* ensure_db without its test of the session: a new anon_id on every request.
ensure_db_remint(s) ==
    session' = [session EXCEPT
                   ![s] = IF session[s] = NULL
                          THEN Some(1 + Cardinality({ x \in Sessions : session[x] # NULL }))
                          ELSE Some(session[s][1] + NumSessions)]

\* Ego.py ensure_db (before_request): mint the session's anon_id when absent.
\* uuid4 draws a value no session holds yet; which one is immaterial, every
\* use of it is through make_anon_hash, so the n-th token minted is n.
ensure_db(s) ==
    IF session[s] = NULL
    THEN session' = [session EXCEPT
                        ![s] = Some(1 + Cardinality({ x \in Sessions : session[x] # NULL })
                                      + NumSessions * (secret_index - 1))]
    ELSE session' = session

\* What a vote handler run as one action leaves in `last`.
record(op, s, qid, aid, resp) ==
    last' = [op |-> op, s |-> s, qid |-> qid, aid |-> aid, resp |-> Some(resp)]

\* ---------------------------------------------------------- Spec: actions
\* Time passes.
Tick ==
    /\ now < MaxTime
    /\ now' = now + 1
    /\ UNCHANGED << SECRET, tables, session, last, req, hashing >>

\* Ego.py ask (POST with a title): a new question.
ask(s) ==
    /\ sqlite_sequence.questions < MaxQuestions
    /\ ensure_db(s)
    /\ questions' = questions \cup { sqlite_sequence.questions + 1 }
    /\ sqlite_sequence' = [sqlite_sequence EXCEPT !.questions = @ + 1]
    /\ UNCHANGED << SECRET, answers, avotes, qvotes, now, last, req, hashing >>

\* Ego.py answer (POST with a body): 404 without the question, else a new answer.
answer(s, qid) ==
    /\ ensure_db(s)
    /\ IF qid \notin questions
       THEN UNCHANGED << answers, sqlite_sequence >>
       ELSE /\ sqlite_sequence.answers < MaxAnswers
            /\ answers' = answers \cup
                   { [id |-> sqlite_sequence.answers + 1, question_id |-> qid] }
            /\ sqlite_sequence' = [sqlite_sequence EXCEPT !.answers = @ + 1]
    /\ UNCHANGED << SECRET, questions, avotes, qvotes, now, last, req, hashing >>

\* admin_app.py delete_question: DELETE FROM questions WHERE id=?  on a
\* connection that never sets PRAGMA foreign_keys, so ON DELETE CASCADE of
\* answers is not applied; avotes and qvotes declare no foreign key.  The
\* blueprint Ego.py registers (admin_app.admin_bp) has no before_request of
\* its own: the Authorization header of the request is read by nothing.
delete_question(s, qid, authorization) ==
    /\ ensure_db(s)
    /\ questions' = questions \ { qid }
    /\ UNCHANGED << SECRET, answers, avotes, qvotes, sqlite_sequence, now, last, req, hashing >>

\* Ego.py vote_question.
vote_question(s, qid) ==
    /\ ensure_db(s)
    /\ LET anon_hash == make_anon_hash(session'[s][1])
           r == vote_question_run(qvotes, sqlite_sequence.qvotes, questions, qid,
                                  anon_hash, now)
       IN  /\ r.seq <= MaxQvoteId
           /\ qvotes' = r.qvotes
           /\ sqlite_sequence' = [sqlite_sequence EXCEPT !.qvotes = r.seq]
           /\ record("vote_question", s, qid, 0, r.resp)
    /\ UNCHANGED << SECRET, questions, answers, avotes, now, req, hashing >>

\* Ego.py vote_answer, run from its first line to its return.
vote_answer(s, qid, aid, from) ==
    /\ ensure_db(s)
    /\ LET anon_hash == make_anon_hash(session'[s][1])
           ip_hash == make_ip_hash(client_ip(from.xff, from.remote_addr))
           r == vote_answer_run(avotes, sqlite_sequence.avotes, answers, qid, aid,
                                anon_hash, ip_hash, now)
       IN  /\ r.seq <= MaxAvoteId
           /\ avotes' = r.avotes
           /\ sqlite_sequence' = [sqlite_sequence EXCEPT !.avotes = r.seq]
           /\ record("vote_answer", s, qid, aid, r.resp)
    /\ UNCHANGED << SECRET, questions, answers, qvotes, now, req, hashing >>

QuestionIds == 1 .. MaxQuestions
AnswerIds == 1 .. MaxAnswers

Next ==
    \/ Tick
    \/ \E s \in Sessions : ask(s)
    \/ \E s \in Sessions, qid \in QuestionIds : answer(s, qid)
    \/ \E s \in Sessions, qid \in QuestionIds, aid \in AnswerIds, from \in Origins :
           vote_answer(s, qid, aid, from)

Spec == Init /\ [][Next]_vars


\* Both ledgers, the posts and the admin delete at one instant of the clock.
NextLedgers ==
    \/ \E s \in Sessions : ask(s)
    \/ \E s \in Sessions, qid \in QuestionIds : answer(s, qid)
    \/ \E s \in Sessions, qid \in QuestionIds, authorization \in Authorizations :
           delete_question(s, qid, authorization)
    \/ \E s \in Sessions, qid \in QuestionIds :
           vote_question(s, qid) /\ sqlite_sequence'.qvotes <= MaxLedgersQvoteId
    \/ \E s \in Sessions, qid \in QuestionIds, aid \in AnswerIds, from \in Origins :
           vote_answer(s, qid, aid, from)

SpecLedgers == Init /\ [][NextLedgers]_vars

\* ------------------------------------------------------ SpecConc: actions
\* vote_answer on worker w, one step per SQL statement.  Each worker has its
\* own connection; a SELECT sees what is committed, and a write with the
\* commit that follows it is one step (SQLite serialises writers, and no
\* other connection sees the row before the commit).
others == << SECRET, questions, answers, qvotes, now, last, hashing >>

\* Lines 692-709: before_request, the answer's existence, the two hashes and
\* the soft cap.  The SELECT on answers and the SELECT of the cap are one step:
\* no vote handler writes answers, and a row of answers is never removed.
va_begin(w, s, qid, aid, from) ==
    /\ req[w].pc = "idle"
    /\ ensure_db(s)
    /\ LET anon_hash == make_anon_hash(session'[s][1])
           ip_hash == make_ip_hash(client_ip(from.xff, from.remote_addr))
           r == [idle EXCEPT !.qid = qid, !.aid = aid]
       IN  req' = [req EXCEPT ![w] =
               IF ~answer_of_question(answers, aid, qid)
               THEN [r EXCEPT !.pc = "done", !.resp = Some(not_found)]
               ELSE IF recent_other(avotes, qid, ip_hash, anon_hash, now)
               THEN [r EXCEPT !.pc = "done", !.resp = Some(ip_cap)]
               ELSE [r EXCEPT !.pc = "lookup", !.anon_hash = Some(anon_hash),
                              !.ip_hash = Some(ip_hash)]]
    /\ UNCHANGED << avotes, sqlite_sequence, others >>

\* Line 711: the row of this device for the question.
va_lookup(w) ==
    /\ req[w].pc = "lookup"
    /\ LET r == req[w] IN
       req' = [req EXCEPT ![w] =
           [r EXCEPT !.pc = "write",
                     !.existing = existing_avote(avotes, r.qid, r.anon_hash[1])]]
    /\ UNCHANGED << avotes, sqlite_sequence, session, others >>

\* Lines 716-734: the write of the branch taken, and its commit.  The locals
\* no later line reads (the hashes, existing) are dropped from the state.
va_write(w) ==
    /\ req[w].pc = "write"
    /\ LET r == req[w]
           x == vote_answer_write(avotes, sqlite_sequence.avotes, r.existing, r.qid,
                                  r.aid, r.anon_hash[1], r.ip_hash[1], now)
       IN  /\ x.seq <= MaxAvoteId
           /\ avotes' = x.avotes
           /\ sqlite_sequence' = [sqlite_sequence EXCEPT !.avotes = x.seq]
           /\ req' = [req EXCEPT ![w] =
                  IF x.raised
                  THEN [idle EXCEPT !.pc = "done", !.qid = r.qid, !.aid = r.aid,
                                    !.resp = Some(server_error)]
                  ELSE [idle EXCEPT !.pc = IF x.cleared_answer_id = NULL
                                           THEN "count" ELSE "prev_count",
                                    !.qid = r.qid, !.aid = r.aid,
                                    !.voted = Some(x.voted),
                                    !.cleared_answer_id = x.cleared_answer_id]]
    /\ UNCHANGED << session, others >>

\* Line 730: after a move, the count of the answer left.
va_prev_count(w) ==
    /\ req[w].pc = "prev_count"
    /\ LET r == req[w] IN
       req' = [req EXCEPT ![w] =
           [r EXCEPT !.pc = "count",
                     !.prev_count = prev_count_of(avotes, r.qid, r.cleared_answer_id)]]
    /\ UNCHANGED << avotes, sqlite_sequence, session, others >>

\* Lines 736-737: the count of the answer voted, and the response.
va_count(w) ==
    /\ req[w].pc = "count"
    /\ LET r == req[w] IN
       req' = [req EXCEPT ![w] =
           [r EXCEPT !.pc = "done",
                     !.resp = Some(ok_response(r.voted[1],
                                               count_avotes(avotes, r.qid, r.aid),
                                               r.cleared_answer_id, r.prev_count))]]
    /\ UNCHANGED << avotes, sqlite_sequence, session, others >>

\* The response leaves; the worker is free again.
va_return(w) ==
    /\ req[w].pc = "done"
    /\ req' = [req EXCEPT ![w] = idle]
    /\ UNCHANGED << avotes, sqlite_sequence, session, others >>

NextConc ==
    \/ \E s \in Sessions : ask(s)
    \/ \E s \in Sessions, qid \in QuestionIds : answer(s, qid)
    \/ \E w \in Workers, s \in Sessions, qid \in QuestionIds, aid \in AnswerIds,
          from \in Origins : va_begin(w, s, qid, aid, from)
    \/ \E w \in Workers : va_lookup(w)
    \/ \E w \in Workers : va_write(w)
    \/ \E w \in Workers : va_prev_count(w)
    \/ \E w \in Workers : va_count(w)
    \/ \E w \in Workers : va_return(w)

SpecConc == Init /\ [][NextConc]_vars

\* ----------------------------------------------------- SpecSecret
\* Lines 10-11 and 17: the process starts again with another secret
\* (FLASK_SECRET reconfigured, or unset and os.urandom(24) drawn anew).  The
\* database file is kept.  SECRET is also the key that signs the session
\* cookie, so the cookies browsers hold no longer verify and every session
\* starts empty.
restart ==
    /\ secret_index < NumSecrets
    /\ SECRET' = SecretValues[secret_index + 1]
    /\ session' = [s \in Sessions |-> NULL]
    /\ UNCHANGED << tables, now, last, req, hashing >>

NextSecret ==
    \/ restart
    \/ \E s \in Sessions : ask(s)
    \/ \E s \in Sessions, qid \in QuestionIds : answer(s, qid)
    \/ \E s \in Sessions, qid \in QuestionIds, aid \in AnswerIds, from \in Origins :
           vote_answer(s, qid, aid, from)

SpecSecret == Init /\ [][NextSecret]_vars

\* ---------------------------------------------------------- SpecQ
\* The question-vote ledger: questions come and go, time passes, and each
\* vote_question runs from its first line to its return.
NextQ ==
    \/ Tick
    \/ \E s \in Sessions : ask(s)
    \/ \E s \in Sessions, qid \in QuestionIds, authorization \in Authorizations :
           delete_question(s, qid, authorization)
    \/ \E s \in Sessions, qid \in QuestionIds : vote_question(s, qid)

SpecQ == Init /\ [][NextQ]_vars

\* ----------------------------------------------------- SpecConcQ: actions
\* vote_question on worker w, one step per SQL statement, a write with its
\* commit being one step.
\* Lines 671-677: before_request, the question's existence and the hash.
vq_begin(w, s, qid) ==
    /\ req[w].pc = "idle"
    /\ ensure_db(s)
    /\ LET anon_hash == make_anon_hash(session'[s][1])
           r == [idle EXCEPT !.qid = qid]
       IN  req' = [req EXCEPT ![w] =
               IF qid \notin questions
               THEN [r EXCEPT !.pc = "done", !.resp = Some(not_found)]
               ELSE [r EXCEPT !.pc = "q_lookup", !.anon_hash = Some(anon_hash)]]
    /\ UNCHANGED << SECRET, tables, now, last, hashing >>

\* Line 679: the row of this device for the question.
vq_lookup(w) ==
    /\ req[w].pc = "q_lookup"
    /\ LET r == req[w] IN
       req' = [req EXCEPT ![w] =
           [r EXCEPT !.pc = "q_write",
                     !.existing = existing_qvote(qvotes, r.qid, r.anon_hash[1])]]
    /\ UNCHANGED << SECRET, tables, session, now, last, hashing >>

\* Lines 680-687: the write of the branch taken, and its commit.
vq_write(w) ==
    /\ req[w].pc = "q_write"
    /\ LET r == req[w]
           x == vote_question_write(qvotes, sqlite_sequence.qvotes, r.existing, r.qid,
                                    r.anon_hash[1], now)
       IN  /\ x.seq <= MaxQvoteId
           /\ qvotes' = x.qvotes
           /\ sqlite_sequence' = [sqlite_sequence EXCEPT !.qvotes = x.seq]
           /\ req' = [req EXCEPT ![w] =
                  IF x.raised
                  THEN [idle EXCEPT !.pc = "done", !.qid = r.qid,
                                    !.resp = Some(server_error)]
                  ELSE [idle EXCEPT !.pc = "q_count", !.qid = r.qid,
                                    !.voted = Some(x.voted)]]
    /\ UNCHANGED << SECRET, questions, answers, avotes, session, now, last, hashing >>

\* Lines 689-690: the count of the question, and the response.
vq_count(w) ==
    /\ req[w].pc = "q_count"
    /\ LET r == req[w] IN
       req' = [req EXCEPT ![w] =
           [r EXCEPT !.pc = "done",
                     !.resp = Some(ok_response(r.voted[1], count_qvotes(qvotes, r.qid),
                                               NULL, NULL))]]
    /\ UNCHANGED << SECRET, tables, session, now, last, hashing >>

\* The response leaves; the worker is free again.
vq_return(w) ==
    /\ req[w].pc = "done"
    /\ req' = [req EXCEPT ![w] = idle]
    /\ UNCHANGED << SECRET, tables, session, now, last, hashing >>

NextConcQ ==
    \/ \E s \in Sessions : ask(s)
    \/ \E s \in Sessions, qid \in QuestionIds, authorization \in Authorizations :
           delete_question(s, qid, authorization)
    \/ \E w \in Workers, s \in Sessions, qid \in QuestionIds : vq_begin(w, s, qid)
    \/ \E w \in Workers : vq_lookup(w)
    \/ \E w \in Workers : vq_write(w)
    \/ \E w \in Workers : vq_count(w)
    \/ \E w \in Workers : vq_return(w)

SpecConcQ == Init /\ [][NextConcQ]_vars


\* ----------------------------------------------------------------------
\* SpecAddr: make_ip_hash as a function of the address text.  An address
\* is the text split at its separator: at ":" when it contains one,
\* otherwise at "."; an empty part between two ":" is how "::" splits.
\* ----------------------------------------------------------------------
IPv6(parts) == [colon |-> TRUE, parts |-> parts]

Dotted(parts) == [colon |-> FALSE, parts |-> parts]

Addresses ==
    { Addr1, Addr2, Addr3,
      Dotted(<< "localhost" >>),
      Dotted(<< "" >>),
      Dotted(<< "10", "0", "0" >>),
      Dotted(<< "10", "0", "0", "1", "5" >>),
      IPv6(<< "10.0.0.1", "8080" >>),
      IPv6(<< "", "", "1" >>),
      IPv6(<< "2001", "db8", "0", "0", "0", "0", "0", "1" >>),
      IPv6(<< "2001", "db8", "0", "0", "0", "0", "0", "2" >>),
      IPv6(<< "2001", "db8", "0", "1", "0", "0", "0", "1" >>),
      IPv6(<< "2001", "db8", "", "1" >>),
      IPv6(<< "2001", "db8", "", "2" >>) }

InitAddr ==
    /\ SECRET = SecretValues[1]
    /\ questions = {}
    /\ answers = {}
    /\ avotes = {}
    /\ qvotes = {}
    /\ sqlite_sequence = [questions |-> 0, answers |-> 0, avotes |-> 0, qvotes |-> 0]
    /\ session = [s \in Sessions |-> NULL]
    /\ now = 0
    /\ last = [op |-> "none", s |-> 0, qid |-> 0, aid |-> 0, resp |-> NULL]
    /\ req = [w \in Workers |-> idle]
    /\ hashing \in { [ip |-> << a, b >>, ip_hash |-> NULL] : a \in Addresses, b \in Addresses }

\* make_ip_hash is applied to both addresses.
hash_addresses ==
    /\ hashing.ip # << >>
    /\ hashing.ip_hash = NULL
    /\ hashing' = [hashing EXCEPT
                      !.ip_hash = Some(<< make_ip_hash(hashing.ip[1]),
                                          make_ip_hash(hashing.ip[2]) >>)]
    /\ UNCHANGED << SECRET, tables, session, now, last, req >>

NextAddr == hash_addresses

SpecAddr == InitAddr /\ [][NextAddr]_vars

\* ----------------------------------------------------------------------
\* SpecRetry: time without end.  The handlers read the clock only to
\* compare it with created_at (within_last_day) and to stamp a row, so a
\* passing second is written as a change of epoch: the clock keeps its
\* reading and every created_at lies one second further in the past.  A
\* row older than every window stays at Expired: no SELECT tells such
\* rows apart by age.
\* ----------------------------------------------------------------------
Expired == 0 - (DaySecs + 1) * TicksPerSec

Max(a, b) == IF a > b THEN a ELSE b

second_passes ==
    /\ avotes' = { [r EXCEPT !.created_at = Max(r.created_at - TicksPerSec, Expired)] :
                     r \in avotes }
    /\ UNCHANGED << SECRET, questions, answers, qvotes, sqlite_sequence, session,
                    now, last, req, hashing >>

\* The voter that keeps retrying: the last session, answer 1 of question 1,
\* always from the same address.
retry ==
    vote_answer(NumSessions, 1, 1, [xff |-> NULL, remote_addr |-> Addr1])

NextRetry ==
    \/ second_passes
    \/ \E s \in Sessions : ask(s)
    \/ \E s \in Sessions, qid \in QuestionIds : answer(s, qid)
    \/ \E s \in Sessions, qid \in QuestionIds, aid \in AnswerIds, from \in Origins :
           vote_answer(s, qid, aid, from)

\* Time always passes, and the retrying voter sends its request again and
\* again; what the other voters do, and when, is left open.
SpecRetry ==
    /\ Init
    /\ [][NextRetry]_vars
    /\ WF_vars(second_passes)
    /\ SF_vars(retry)


\* ================================================================ claims
AllIdle == \A w \in Workers : req[w].pc = "idle"

\* C1: for every question and identity hash the answer-vote table holds at
\* most one row: two rows of one question and one anon_hash are the same row.
\* It is stated of every state of SpecConc, whose runs include the ones in which
\* each request runs to completion before the next begins.
C1_OneRowPerVoter ==
    \A r1 \in avotes, r2 \in avotes :
        (r1.question_id = r2.question_id /\ r1.anon_hash = r2.anon_hash) => r1 = r2

\* Two voters hold a vote on one question, the second row being the result
\* of a re-cast after a toggle-off or of a later insert, and no request is open.
C1_Witness ==
    /\ AllIdle
    /\ sqlite_sequence.avotes = 2
    /\ \E r1 \in avotes, r2 \in avotes :
           r1 # r2 /\ r1.question_id = r2.question_id

\* ---- what the claims about one request of Spec / SpecLedgers speak of
\* The identity hash of the caller of the request being handled.
caller_hash(s) == make_anon_hash(session'[s][1])
\* The subnet hash of the origin of a request.
origin_hash(from) == make_ip_hash(client_ip(from.xff, from.remote_addr))
\* The rows stored for answer a of question q, counted by their ids.
rows_of(av, q, a) ==
    Cardinality({ r.id : r \in { x \in av : x.answer_id = a /\ x.question_id = q } })
\* The answer-vote rows of identity hash h on question q.
vote_of(av, q, h) == { r \in av : r.anon_hash = h /\ r.question_id = q }
\* 24 hours, in ticks.
DayTicks == DaySecs * TicksPerSec
\* What the question page shows for answer a: vote_counts.get(aid, 0) over
\* SELECT answer_id, COUNT(*) FROM avotes WHERE question_id=? GROUP BY answer_id
vote_counts(av, q) ==
    [a \in { r.answer_id : r \in { x \in av : x.question_id = q } } |->
        Cardinality({ r \in av : r.question_id = q /\ r.answer_id = a })]
shown_count(av, q, a) ==
    IF a \in DOMAIN vote_counts(av, q) THEN vote_counts(av, q)[a] ELSE 0

\* The request this step leaves in `last` is session s's vote for (qid, aid).
\* The formulas below test this before vote_answer itself, which costs more.
names(s, qid, aid) ==
    /\ last'.op = "vote_answer"
    /\ last'.s = s /\ last'.qid = qid /\ last'.aid = aid

\* C2: when the caller's row on the question is for answer A and it casts for
\* A again without being rate-limited, the call deletes the row, answers
\* voted=false, the caller has no vote on the question, and the count of A is
\* one less than before the call (and is the count the call reports).
C2_ToggleOff ==
    [][\A s \in Sessions, qid \in QuestionIds, aid \in AnswerIds, from \in Origins :
        ( /\ names(s, qid, aid)
          /\ \E r \in vote_of(avotes, qid, caller_hash(s)) : r.answer_id = aid
          /\ last'.resp[1].status # 429
          /\ vote_answer(s, qid, aid, from) )
        => /\ last'.resp[1].status = 200
           /\ last'.resp[1].voted = Some(FALSE)
           /\ vote_of(avotes', qid, caller_hash(s)) = {}
           /\ rows_of(avotes', qid, aid) = rows_of(avotes, qid, aid) - 1
           /\ last'.resp[1].count = Some(rows_of(avotes, qid, aid) - 1)
           /\ Cardinality(avotes') = Cardinality(avotes) - 1]_vars

\* A toggle-off has been answered while another voter's vote remains.
C2_Witness ==
    /\ last.op = "vote_answer"
    /\ last.resp[1].status = 200
    /\ last.resp[1].voted = Some(FALSE)
    /\ avotes # {}

\* C3: when the caller's row on the question is for answer A and it casts,
\* not rate-limited, for another answer B of the question, then afterwards its
\* row is for B, A has one row less and B one more, and the response has
\* voted=true, the new count of B, cleared_answer_id=A and A's count after
\* the removal.
C3_Move ==
    [][\A s \in Sessions, qid \in QuestionIds, aid \in AnswerIds, from \in Origins :
        names(s, qid, aid) =>
        \A e \in vote_of(avotes, qid, caller_hash(s)) :
        ( /\ e.answer_id # aid
          /\ \E a \in answers : a.id = aid /\ a.question_id = qid
          /\ last'.resp[1].status # 429
          /\ vote_answer(s, qid, aid, from) )
        => /\ \E r \in avotes' : vote_of(avotes', qid, caller_hash(s)) = { r }
                                 /\ r.answer_id = aid
           /\ rows_of(avotes', qid, e.answer_id) = rows_of(avotes, qid, e.answer_id) - 1
           /\ rows_of(avotes', qid, aid) = rows_of(avotes, qid, aid) + 1
           /\ last'.resp[1] =
                  [status |-> 200, error |-> "", voted |-> Some(TRUE),
                   count |-> Some(rows_of(avotes, qid, aid) + 1),
                   cleared_answer_id |-> Some(e.answer_id),
                   prev_count |-> Some(rows_of(avotes, qid, e.answer_id) - 1)]]_vars

\* A move has been answered, and it left another voter's vote on the answer
\* the caller moved away from.
C3_Witness ==
    /\ last.op = "vote_answer"
    /\ last.resp[1].status = 200
    /\ last.resp[1].cleared_answer_id # NULL
    /\ last.resp[1].prev_count = Some(1)

\* C4: the count a successful vote_answer reports is the number of rows
\* stored for that answer of that question when it returns, and what the
\* question page shows for any answer is the number of rows stored for it.
C4_CountsAreRowCounts ==
    [][\A s \in Sessions, qid \in QuestionIds, aid \in AnswerIds, from \in Origins :
        ( /\ names(s, qid, aid)
          /\ last'.resp[1].status = 200
          /\ vote_answer(s, qid, aid, from) )
        => /\ last'.resp[1].count = Some(rows_of(avotes', qid, aid))
           /\ \A q \in QuestionIds, a \in AnswerIds :
                  shown_count(avotes', q, a) = rows_of(avotes', q, a)]_vars

\* A vote has been answered with a count of 2: two voters back one answer.
C4_Witness ==
    /\ last.op = "vote_answer"
    /\ last.resp[1].status = 200
    /\ last.resp[1].count = Some(2)

\* C5: when another identity holds a row on the question that carries the
\* subnet hash of the caller's address and was written less than 24 hours
\* ago, a vote_answer for an answer of the question is answered 429 ip_cap
\* and no row of avotes or qvotes changes.
C5_RateLimited ==
    [][\A s \in Sessions, qid \in QuestionIds, aid \in AnswerIds, from \in Origins :
        ( /\ names(s, qid, aid)
          /\ \E a \in answers : a.id = aid /\ a.question_id = qid
          /\ \E r \in avotes :
                 /\ r.question_id = qid
                 /\ r.anon_hash # caller_hash(s)
                 /\ r.ip_hash = origin_hash(from)
                 /\ now - r.created_at < DayTicks
          /\ vote_answer(s, qid, aid, from) )
        => /\ last'.resp[1] = ip_cap
           /\ last'.resp[1].status = 429
           /\ avotes' = avotes
           /\ qvotes' = qvotes]_vars

\* A request has been answered 429 while the other identity's row stands.
C5_Witness ==
    /\ last.op = "vote_answer"
    /\ last.resp[1].status = 429
    /\ session[last.s] # NULL
    /\ \E r \in avotes :
           r.question_id = last.qid /\ r.anon_hash # make_anon_hash(session[last.s][1])

\* C6: the claim as made.  The vote request handled last was answered 429;
\* the table holds a single row, another identity's, on the question and the
\* subnet of the request, and more than 24 hours have passed since that row's
\* created_at: the identical call, made now, succeeds.
C6_AcceptedAfter24h ==
    \A from \in Origins :
        ( /\ last.op = "vote_answer"
          /\ last.resp[1] = ip_cap
          /\ \E r \in avotes :
                 /\ avotes = { r }
                 /\ r.question_id = last.qid
                 /\ r.anon_hash # make_anon_hash(session[last.s][1])
                 /\ r.ip_hash = origin_hash(from)
                 /\ now - r.created_at > DayTicks )
        => vote_answer_run(avotes, sqlite_sequence.avotes, answers, last.qid, last.aid,
                           make_anon_hash(session[last.s][1]), origin_hash(from),
                           now).resp.status = 200

\* C7: a caller with no vote on the question, whose address normalises to a
\* subnet other than that of every other identity's row on the question, is
\* not rate-limited however recent those rows are: it is answered voted=true,
\* its row is stored and the other rows stay as they were.
C7_OtherSubnetNotLimited ==
    [][\A s \in Sessions, qid \in QuestionIds, aid \in AnswerIds, from \in Origins :
        ( /\ names(s, qid, aid)
          /\ \E a \in answers : a.id = aid /\ a.question_id = qid
          /\ vote_of(avotes, qid, caller_hash(s)) = {}
          /\ \E r \in avotes : r.question_id = qid /\ now - r.created_at < DayTicks
          /\ \A r \in avotes :
                 r.question_id = qid => r.ip_hash # origin_hash(from)
          /\ vote_answer(s, qid, aid, from) )
        => /\ last'.resp[1].status = 200
           /\ last'.resp[1].voted = Some(TRUE)
           /\ avotes \subseteq avotes'
           /\ \E r \in avotes' \ avotes :
                  /\ avotes' = avotes \cup { r }
                  /\ r.question_id = qid /\ r.answer_id = aid
                  /\ r.anon_hash = caller_hash(s)
                  /\ r.ip_hash = origin_hash(from)]_vars

\* Two identities hold rows on one question, written from different subnets
\* less than 24 hours apart, the second just stored.
C7_Witness ==
    /\ last.op = "vote_answer"
    /\ last.resp[1].status = 200
    /\ last.resp[1].voted = Some(TRUE)
    /\ \E r1 \in avotes, r2 \in avotes :
           /\ r1.question_id = last.qid /\ r2.question_id = last.qid
           /\ r1.anon_hash # r2.anon_hash
           /\ r1.ip_hash # r2.ip_hash
           /\ r2.created_at - r1.created_at < DayTicks
           /\ r1.created_at <= r2.created_at
           /\ r2.answer_id = last.aid

\* C8: a vote_answer whose answer id does not exist, or exists under another
\* question, is answered 404 not_found and leaves avotes and qvotes as they
\* were, whoever calls, from wherever, whatever it voted before.
C8_NotFoundNoChange ==
    [][\A s \in Sessions, qid \in QuestionIds, aid \in AnswerIds, from \in Origins :
        ( /\ names(s, qid, aid)
          /\ ~ \E a \in answers : a.id = aid /\ a.question_id = qid
          /\ vote_answer(s, qid, aid, from) )
        => /\ last'.resp[1] = not_found
           /\ last'.resp[1].status = 404
           /\ avotes' = avotes
           /\ qvotes' = qvotes]_vars

\* A caller holding an answer vote has been answered 404 for an answer that
\* exists under another question, with both ledgers non-empty.
C8_Witness ==
    /\ last.op = "vote_answer"
    /\ last.resp[1].status = 404
    /\ \E a \in answers : a.id = last.aid /\ a.question_id # last.qid
    /\ \E r \in avotes : r.anon_hash = make_anon_hash(session[last.s][1])
    /\ qvotes # {}

\* C9: the claim as made.  A vote_answer on a question that does not exist,
\* the admin's delete-question having removed it or not, is answered 404 and
\* changes neither ledger.
C9_NoQuestionNotFound ==
    [][\A s \in Sessions, qid \in QuestionIds, aid \in AnswerIds, from \in Origins :
        ( /\ names(s, qid, aid)
          /\ qid \notin questions
          /\ vote_answer(s, qid, aid, from) )
        => /\ last'.resp[1].status = 404
           /\ avotes' = avotes
           /\ qvotes' = qvotes]_vars

\* C10: a uniqueness violation on the racing INSERT never reaches the caller
\* as a server error: no request of vote_answer ends with status 500.
C10_NoServerError ==
    \A w \in Workers : req[w].pc = "done" => req[w].resp[1].status # 500

\* C11: under any interleaving of vote_answer requests no state holds two
\* avotes rows of one question and one anon_hash, and a racing INSERT that
\* finds the key taken (its lookup saw no row, another request has committed
\* one since) fails: the table is left as it was and the request raises.
C11_RacingInsertFails ==
    [][/\ \A r1 \in avotes', r2 \in avotes' :
              (r1.question_id = r2.question_id /\ r1.anon_hash = r2.anon_hash)
                  => r1 = r2
       /\ \A w \in Workers :
              ( /\ req[w].pc = "write"
                /\ req[w].existing = {}
                /\ \E r \in avotes : /\ r.question_id = req[w].qid
                                     /\ r.anon_hash = req[w].anon_hash[1]
                /\ va_write(w) )
              => /\ avotes' = avotes
                 /\ req'[w].pc = "done"
                 /\ req'[w].resp = Some(server_error)]_vars

\* A racing INSERT has failed: its request ended raising, and the question
\* holds the one row the winner stored.
C11_Witness ==
    \E w \in Workers :
        /\ req[w].pc = "done"
        /\ req[w].resp = Some(server_error)
        /\ Cardinality({ r \in avotes : r.question_id = req[w].qid }) = 1

\* The request of this step repeats, from the same subnet and at the same
\* instant, the request handled last, which succeeded with voted=true and
\* left the caller's row r on answer aid.
replays(s, qid, aid, from, r) ==
    /\ last.op = "vote_answer"
    /\ last.s = s /\ last.qid = qid /\ last.aid = aid
    /\ last.resp[1].status = 200
    /\ last.resp[1].voted = Some(TRUE)
    /\ names(s, qid, aid)
    /\ r.answer_id = aid
    /\ r.ip_hash = origin_hash(from)
    /\ r.created_at = now
    /\ vote_answer(s, qid, aid, from)

\* C12: the claim as made.  An identical request replayed right after it
\* succeeded leaves the ledger as the first execution left it, the voter
\* still on the answer it voted or moved to.
C12_ReplayKeepsLedger ==
    [][\A s \in Sessions, qid \in QuestionIds, aid \in AnswerIds, from \in Origins :
        names(s, qid, aid) =>
        \A r \in vote_of(avotes, qid, caller_hash(s)) :
            replays(s, qid, aid, from, r)
            => /\ avotes' = avotes
               /\ \E x \in vote_of(avotes', qid, caller_hash(s)) : x.answer_id = aid]_vars

\* C12, amended: an identical request replayed right after it succeeded with
\* voted=true (a first vote or a move) toggles the vote off: it is answered
\* 200 with voted=false, the caller's row is deleted, the caller has no vote
\* on the question and every other row is as it was.
C12_ReplayTogglesOff ==
    [][\A s \in Sessions, qid \in QuestionIds, aid \in AnswerIds, from \in Origins :
        names(s, qid, aid) =>
        \A r \in vote_of(avotes, qid, caller_hash(s)) :
            replays(s, qid, aid, from, r)
            => /\ last'.resp[1].status = 200
               /\ last'.resp[1].voted = Some(FALSE)
               /\ avotes' = avotes \ { r }
               /\ vote_of(avotes', qid, caller_hash(s)) = {}]_vars

\* At the instant the first vote of the ledger was cast, its replay has been
\* answered voted=false and the ledger is empty again.
C12_Witness ==
    /\ last.op = "vote_answer"
    /\ last.resp[1].status = 200
    /\ last.resp[1].voted = Some(FALSE)
    /\ now = 0
    /\ avotes = {}
    /\ sqlite_sequence.avotes = 1

\* C13: a vote_answer answered 200 changes exactly one row, the caller's own
\* row of the question in avotes (inserted, deleted, or updated in place
\* under its id); every other row of avotes, and qvotes, questions and
\* answers, are as they were.
C13_OneOwnRowChanges ==
    [][\A s \in Sessions, qid \in QuestionIds, aid \in AnswerIds, from \in Origins :
        ( /\ names(s, qid, aid)
          /\ last'.resp[1].status = 200
          /\ vote_answer(s, qid, aid, from) )
        => LET own  == vote_of(avotes, qid, caller_hash(s))
               own2 == vote_of(avotes', qid, caller_hash(s))
           IN  /\ avotes \ own = avotes' \ own2
               /\ Cardinality(own) <= 1
               /\ Cardinality(own2) <= 1
               /\ own # own2
               /\ \A r \in own, r2 \in own2 : r.id = r2.id
               /\ qvotes' = qvotes
               /\ questions' = questions
               /\ answers' = answers]_vars

\* A vote has been toggled off or moved while another voter's row on the
\* same answer, and a question vote, stayed in place.
C13_Witness ==
    /\ last.op = "vote_answer"
    /\ last.resp[1].status = 200
    /\ qvotes # {}
    /\ \/ /\ last.resp[1].voted = Some(FALSE)
          /\ \E r \in avotes : r.question_id = last.qid /\ r.answer_id = last.aid
       \/ /\ last.resp[1].cleared_answer_id # NULL
          /\ \E r \in avotes : /\ r.question_id = last.qid
                               /\ r.answer_id = last.resp[1].cleared_answer_id[1]

\* ---- what the claims about one request of vote_question speak of
\* The request this step leaves in `last` is session s's vote for question qid.
names_question(s, qid) ==
    /\ last'.op = "vote_question"
    /\ last'.s = s /\ last'.qid = qid
\* The question-vote rows of identity hash h on question q.
qvote_of(qv, q, h) == { r \in qv : r.anon_hash = h /\ r.question_id = q }
\* Who has voted what: the (question, identity hash) pairs of the ledger.
qvote_keys(qv) == { << r.question_id, r.anon_hash >> : r \in qv }

\* C14: vote_question on an existing question toggles the caller's row: with
\* no row it inserts one and answers voted=true, with a row it deletes it and
\* answers voted=false; the count it answers is the number of rows of the
\* question after the change, no other row changes, and the same call made
\* once more would leave the (question, identity) pairs as they were before.
C14_QuestionVoteToggles ==
    [][\A s \in Sessions, qid \in QuestionIds :
        ( /\ names_question(s, qid)
          /\ qid \in questions
          /\ vote_question(s, qid) )
        => LET own   == qvote_of(qvotes, qid, caller_hash(s))
               own2  == qvote_of(qvotes', qid, caller_hash(s))
               again == vote_question_run(qvotes', sqlite_sequence'.qvotes, questions',
                                          qid, caller_hash(s), now')
           IN  /\ last'.resp[1].status = 200
               /\ own = {} => /\ last'.resp[1].voted = Some(TRUE)
                              /\ Cardinality(own2) = 1
                              /\ qvotes' = qvotes \cup own2
               /\ own # {} => /\ last'.resp[1].voted = Some(FALSE)
                              /\ own2 = {}
                              /\ qvotes' = qvotes \ own
               /\ last'.resp[1].count =
                      Some(Cardinality({ r \in qvotes' : r.question_id = qid }))
               /\ qvote_keys(again.qvotes) = qvote_keys(qvotes)]_vars

\* A question vote has been taken back while another voter's vote on the
\* question stays: the call answered voted=false and a count of 1.
C14_Witness ==
    /\ last.op = "vote_question"
    /\ last.resp[1].status = 200
    /\ last.resp[1].voted = Some(FALSE)
    /\ last.resp[1].count = Some(1)

\* C15: under any interleaving of vote_question requests (the runs in which
\* each request finishes before the next begins among them) qvotes holds at
\* most one row for a question and an anon_hash.
C15_OneQvotePerVoter ==
    \A r1 \in qvotes, r2 \in qvotes :
        (r1.question_id = r2.question_id /\ r1.anon_hash = r2.anon_hash) => r1 = r2

\* Two requests of one identity raced for one question: one stored the row,
\* the other's INSERT was refused.
C15_Witness ==
    \E w \in Workers :
        /\ req[w].pc = "done"
        /\ req[w].resp = Some(server_error)
        /\ Cardinality({ r \in qvotes : r.question_id = req[w].qid }) = 1

\* C16: vote_question is never rate-limited.  The handler reads no address;
\* on an existing question it is answered 200 whatever rows other identities
\* hold on the question and however recent they are, and on a question that
\* does not exist it is answered 404 not_found and changes no table.
C16_QuestionVoteNotLimited ==
    [][\A s \in Sessions, qid \in QuestionIds :
        ( /\ names_question(s, qid)
          /\ vote_question(s, qid) )
        => /\ qid \in questions => last'.resp[1].status = 200
           /\ qid \notin questions => /\ last'.resp[1] = not_found
                                      /\ last'.resp[1].status = 404
                                      /\ qvotes' = qvotes
                                      /\ avotes' = avotes
                                      /\ questions' = questions
                                      /\ answers' = answers]_vars

\* A second identity has just voted a question another identity voted at the
\* same instant: both rows stand.
C16_Witness ==
    /\ last.op = "vote_question"
    /\ last.resp[1].status = 200
    /\ last.resp[1].voted = Some(TRUE)
    /\ last.resp[1].count = Some(2)
    /\ \A r \in qvotes : r.question_id = last.qid /\ r.created_at = now

\* C17: every avotes row refers to an answer that exists and belongs to the
\* row's question, in every state the posts, the votes and the admin's
\* deletions of questions lead to.
C17_VotesReferToAnswers ==
    \A r \in avotes :
        \E a \in answers : a.id = r.answer_id /\ a.question_id = r.question_id

\* A vote stands on an answer whose question the admin has deleted, and a
\* vote that was moved stands on the answer it was moved to.
C17_Witness ==
    /\ \E r \in avotes : r.question_id \notin questions
    /\ last.op = "vote_answer"
    /\ last.resp[1].status = 200
    /\ last.resp[1].cleared_answer_id # NULL

\* C18: the claim as made.  A delete-question request removes a question
\* only when its Authorization header passes the check of the credentials.
C18_DeleteNeedsAuth ==
    [][\A s \in Sessions, qid \in QuestionIds, authorization \in Authorizations :
        ( /\ qid \in questions
          /\ qid \notin questions'
          /\ delete_question(s, qid, authorization) )
        => check_auth(authorization)]_vars

\* Some request of session s is handled in this step.
handled(s) ==
    \/ ask(s)
    \/ \E qid \in QuestionIds : answer(s, qid)
    \/ \E qid \in QuestionIds, authorization \in Authorizations :
           delete_question(s, qid, authorization)
    \/ \E qid \in QuestionIds : names_question(s, qid) /\ vote_question(s, qid)
    \/ \E qid \in QuestionIds, aid \in AnswerIds, from \in Origins :
           names(s, qid, aid) /\ vote_answer(s, qid, aid, from)

\* C19: a session's anon_id, once minted, is never changed by a later
\* request; no handler runs for a session that is left without an anon_id
\* (the first request of a session mints it); and a request mints for no
\* session but its own.
C19_TokenMintedOnce ==
    [][/\ \A s \in Sessions : session[s] # NULL => session'[s] = session[s]
       /\ \A s \in Sessions : session'[s] = NULL => ~ handled(s)
       /\ Cardinality({ s \in Sessions : session'[s] # session[s] }) <= 1]_vars

\* Both sessions hold their anon_id, two different ones, and each has cast a
\* vote under it after earlier requests.
C19_Witness ==
    /\ \A s \in Sessions : session[s] # NULL
    /\ \A s1 \in Sessions, s2 \in Sessions : s1 # s2 => session[s1] # session[s2]
    /\ \A s \in Sessions :
           \E r \in avotes : r.anon_hash = make_anon_hash(session[s][1])

\* C20: a change of the server secret keeps every stored vote row, and the
\* rows no longer match: while every row of avotes was written under an
\* earlier secret, a vote_answer for an answer of its question, by any
\* session and from any address, is neither capped by them nor taken for a
\* toggle or a move of one of them; it is answered voted=true with nothing
\* cleared and inserts a row of its own beside the old ones.
C20_SecretChangeUnlinksVotes ==
    [][/\ SECRET' # SECRET => (avotes' = avotes /\ qvotes' = qvotes)
       /\ \A s \in Sessions, qid \in QuestionIds, aid \in AnswerIds, from \in Origins :
              ( /\ names(s, qid, aid)
                /\ avotes # {}
                /\ \A r \in avotes : r.anon_hash.key # SECRET
                /\ \E a \in answers : a.id = aid /\ a.question_id = qid
                /\ vote_answer(s, qid, aid, from) )
              => /\ last'.resp[1].status = 200
                 /\ last'.resp[1].voted = Some(TRUE)
                 /\ last'.resp[1].cleared_answer_id = NULL
                 /\ \E r \in avotes' \ avotes :
                        /\ avotes' = avotes \cup { r }
                        /\ r.question_id = qid /\ r.answer_id = aid
                        /\ r.anon_hash = caller_hash(s)
                        /\ r.anon_hash.key = SECRET']_vars

\* After a change of the secret a vote was stored beside a row written under
\* the old secret for the same answer, from the same subnet.
C20_Witness ==
    /\ last.op = "vote_answer"
    /\ last.resp[1].status = 200
    /\ last.resp[1].count = Some(2)
    /\ \E r1 \in avotes, r2 \in avotes :
           /\ r1.anon_hash.key # SECRET
           /\ r2.anon_hash.key = SECRET
           /\ r1.question_id = r2.question_id
           /\ r1.answer_id = r2.answer_id
           /\ r1.ip_hash.msg = r2.ip_hash.msg

\* ----------------------------------------------------------------------
\* C21.  The digest make_ip_hash takes is keyed by the secret and is of:
\* the first 4 colon-delimited groups (all of them when there are fewer)
\* joined by colons, for an address containing a colon; the first three
\* parts followed by "0", for an address of exactly four dot-delimited
\* parts; the address itself, for any other address.
\* ----------------------------------------------------------------------
C21_SubnetNormalisation ==
    hashing.ip_hash # NULL =>
        \A i \in 1..2 :
            LET ip == hashing.ip[i]
                h == hashing.ip_hash[1][i]
            IN /\ h.key = SECRET
               /\ ip.colon =>
                     /\ h.msg.colon
                     /\ Len(h.msg.parts) = Min(4, Len(ip.parts))
                     /\ \A k \in 1..Len(h.msg.parts) : h.msg.parts[k] = ip.parts[k]
               /\ (~ ip.colon /\ Len(ip.parts) = 4) =>
                     h.msg = [colon |-> FALSE,
                              parts |-> << ip.parts[1], ip.parts[2], ip.parts[3], "0" >>]
               /\ (~ ip.colon /\ Len(ip.parts) # 4) => h.msg = ip

\* Digests were taken of an eight-group colon address and of a
\* four-part dotted address.
C21_Witness ==
    /\ hashing.ip_hash # NULL
    /\ hashing.ip[1].colon
    /\ Len(hashing.ip[1].parts) = 8
    /\ Len(hashing.ip_hash[1][1].msg.parts) = 4
    /\ ~ hashing.ip[2].colon
    /\ Len(hashing.ip[2].parts) = 4
    /\ hashing.ip_hash[1][2].msg.parts[4] = "0"

\* ----------------------------------------------------------------------
\* C22.  Two addresses of the same coarse subnet (the same /24 of IPv4,
\* the same /64 of IPv6, however the address is written, "::" included)
\* have the same digest under the same secret.
\* ----------------------------------------------------------------------
NonEmpty(x) == x # ""

\* The eight groups an IPv6 text stands for: "::" is one or more groups
\* of zeros.
groups_of(ip) ==
    IF \E i \in 1..Len(ip.parts) : ip.parts[i] = ""
    THEN LET i == CHOOSE k \in 1..Len(ip.parts) :
                      /\ ip.parts[k] = ""
                      /\ \A j \in 1..(k - 1) : ip.parts[j] # ""
             head == SubSeq(ip.parts, 1, i - 1)
             tail == SelectSeq(SubSeq(ip.parts, i, Len(ip.parts)), NonEmpty)
         IN head \o [k \in 1..(8 - Len(head) - Len(tail)) |-> "0"] \o tail
    ELSE ip.parts

is_ipv4(ip) == ~ ip.colon /\ Len(ip.parts) = 4

is_ipv6(ip) ==
    /\ ip.colon
    /\ Len(groups_of(ip)) = 8

same_subnet(a, b) ==
    \/ /\ is_ipv4(a)
       /\ is_ipv4(b)
       /\ SubSeq(a.parts, 1, 3) = SubSeq(b.parts, 1, 3)
    \/ /\ is_ipv6(a)
       /\ is_ipv6(b)
       /\ SubSeq(groups_of(a), 1, 4) = SubSeq(groups_of(b), 1, 4)

C22_SameSubnetSameHash ==
    (hashing.ip_hash # NULL /\ same_subnet(hashing.ip[1], hashing.ip[2]))
        => hashing.ip_hash[1][1] = hashing.ip_hash[1][2]

\* ----------------------------------------------------------------------
\* C23.  The subnet cap comes before the lookup of the caller's row: a
\* request of an identity that already holds a vote on the question (a
\* toggle-off or a move) is answered 429 and leaves its row and every
\* other row unchanged, whenever another identity has a row for the
\* question with the caller's current subnet hash created within the
\* trailing 24 hours.
\* ----------------------------------------------------------------------
C23_CapBeforeLookup ==
    [][\A s \in Sessions, qid \in QuestionIds, aid \in AnswerIds, from \in Origins :
        ( /\ names(s, qid, aid)
          /\ vote_of(avotes, qid, caller_hash(s)) # {}
          /\ \E a \in answers : a.id = aid /\ a.question_id = qid
          /\ \E r \in avotes :
                 /\ r.question_id = qid
                 /\ r.anon_hash # caller_hash(s)
                 /\ r.ip_hash = origin_hash(from)
                 /\ now - r.created_at < DayTicks
          /\ vote_answer(s, qid, aid, from) )
        => /\ last'.resp[1] = ip_cap
           /\ vote_of(avotes', qid, caller_hash(s)) = vote_of(avotes, qid, caller_hash(s))
           /\ avotes' = avotes]_vars

\* A holder of a vote was answered 429: its row is there, and so is a
\* row of another identity on the same question.
C23_Witness ==
    /\ last.op = "vote_answer"
    /\ last.resp[1].status = 429
    /\ session[last.s] # NULL
    /\ vote_of(avotes, last.qid, make_anon_hash(session[last.s][1])) # {}
    /\ \E r \in avotes :
           /\ r.question_id = last.qid
           /\ r.anon_hash # make_anon_hash(session[last.s][1])
           /\ now - r.created_at < DayTicks

\* ----------------------------------------------------------------------
\* C24.  A move updates the caller's row in place: the row of the same
\* id, question_id and anon_hash afterwards carries the new answer_id,
\* the subnet hash of the moving request and the current time as
\* created_at; no other row changes, and the question has as many
\* answer-vote rows as before.
\* ----------------------------------------------------------------------
C24_MoveInPlace ==
    [][\A s \in Sessions, qid \in QuestionIds, aid \in AnswerIds, from \in Origins :
        names(s, qid, aid) =>
        \A e \in vote_of(avotes, qid, caller_hash(s)) :
        ( /\ e.answer_id # aid
          /\ \E a \in answers : a.id = aid /\ a.question_id = qid
          /\ last'.resp[1].status # 429
          /\ vote_answer(s, qid, aid, from) )
        => /\ avotes' = (avotes \ { e }) \cup
                          { [id |-> e.id, question_id |-> e.question_id,
                             anon_hash |-> e.anon_hash, answer_id |-> aid,
                             ip_hash |-> origin_hash(from), created_at |-> now] }
           /\ Cardinality({ r \in avotes' : r.question_id = qid })
                  = Cardinality({ r \in avotes : r.question_id = qid })
           /\ sqlite_sequence' = sqlite_sequence]_vars

\* A vote was moved after the clock had advanced: the only row ever
\* inserted points at the answer moved to and carries the current time.
C24_Witness ==
    /\ last.op = "vote_answer"
    /\ last.resp[1].status = 200
    /\ last.resp[1].cleared_answer_id # NULL
    /\ sqlite_sequence.avotes = 1
    /\ now > 0
    /\ \E r \in avotes :
           /\ r.id = 1
           /\ r.answer_id = last.aid
           /\ r.created_at = now

\* ----------------------------------------------------------------------
\* C25.  The move is one atomic step.  The step that writes a move for a
\* voter whose row is in the table takes the table from a state where the
\* voter has exactly one row for the question to a state where the voter
\* has exactly one row for it, the same row id, and changes the row of no
\* other voter; so no other request (which reads the table before or
\* after that step) finds the mover with zero or with two rows.
\* ----------------------------------------------------------------------
C25_MoveIsOneStep ==
    [][\A w \in Workers :
        ( /\ req[w].pc = "write"
          /\ req[w].existing # {}
          /\ \A e \in req[w].existing : e.answer_id # req[w].aid
          /\ vote_of(avotes, req[w].qid, req[w].anon_hash[1]) # {}
          /\ va_write(w) )
        => LET h == req[w].anon_hash[1]
               before == vote_of(avotes, req[w].qid, h)
               after == vote_of(avotes', req[w].qid, h)
           IN /\ Cardinality(before) = 1
              /\ Cardinality(after) = 1
              /\ { r.id : r \in after } = { r.id : r \in before }
              /\ avotes' \ after = avotes \ before]_vars

\* A move has just been written by one worker while another worker is in
\* the middle of its own request, about to read the table.
C25_Witness ==
    \E w \in Workers, v \in Workers :
        /\ w # v
        /\ req[w].pc = "prev_count"
        /\ req[v].pc \in { "lookup", "write", "count" }
        /\ \E r \in avotes : r.question_id = req[w].qid /\ r.answer_id = req[w].aid

\* ----------------------------------------------------------------------
\* C26.  The cap never bans: a voter whose vote on a question was
\* answered 429 and who keeps retrying is eventually accepted, whatever
\* the other voters of its subnet do meanwhile, moving their own votes
\* included.  (A run in which the table has handed out its last row id
\* is left aside: there the retry could not insert for want of an id.)
\* ----------------------------------------------------------------------
C26_RetryEventuallyAccepted ==
    ( /\ last.op = "vote_answer"
      /\ last.s = NumSessions
      /\ last.qid = 1
      /\ last.aid = 1
      /\ last.resp[1].status = 429 )
    ~> ( \/ /\ last.op = "vote_answer"
            /\ last.s = NumSessions
            /\ last.qid = 1
            /\ last.aid = 1
            /\ last.resp[1].status = 200
         \/ sqlite_sequence.avotes = MaxAvoteId )

\* ----------------------------------------------------------------------
\* C27.  Two concurrent requests of two identities on one question end
\* as one of their two serial orders would; in particular a request
\* writes its vote only when no other identity holds a row for the
\* question with the same subnet hash created within the trailing 24
\* hours, so of two such requests from one subnet at most one is
\* accepted.
\* ----------------------------------------------------------------------
C27_OneAcceptedPerSubnet ==
    [][\A w \in Workers :
        ( /\ req[w].pc = "write"
          /\ va_write(w)
          /\ req'[w].voted = Some(TRUE) )
        => ~ \E r \in avotes' :
                 /\ r.question_id = req[w].qid
                 /\ r.ip_hash = req[w].ip_hash[1]
                 /\ r.anon_hash # req[w].anon_hash[1]
                 /\ now - r.created_at < DayTicks]_vars


\* ----------------------------------------------------------------------
\* C28.  One request at a time, under one secret: any two answer-vote
\* rows of the same question that carry the same subnet hash and
\* different identity hashes have created_at values more than 24 hours
\* apart.
\* ----------------------------------------------------------------------
C28_SubnetRowsADayApart ==
    \A r1 \in avotes, r2 \in avotes :
        ( /\ r1.question_id = r2.question_id
          /\ r1.ip_hash = r2.ip_hash
          /\ r1.anon_hash # r2.anon_hash )
        => \/ r1.created_at - r2.created_at > DayTicks
           \/ r2.created_at - r1.created_at > DayTicks

\* Two identities of one subnet both hold a vote on one question.
C28_Witness ==
    \E r1 \in avotes, r2 \in avotes :
        /\ r1.question_id = r2.question_id
        /\ r1.ip_hash = r2.ip_hash
        /\ r1.anon_hash # r2.anon_hash
        /\ r2.created_at > r1.created_at

\* ----------------------------------------------------------------------
\* C29.  Under any interleaving of requests of one identity on one
\* question, a request that reports voted=true for answer a committed a
\* table holding the caller's row pointing at a, and one that reports
\* voted=false committed a table holding no row of the caller for the
\* question.
\* ----------------------------------------------------------------------
C29_VotedMatchesLedger ==
    [][\A w \in Workers :
        ( /\ req[w].pc = "write"
          /\ va_write(w)
          /\ req'[w].voted # NULL )
        => LET mine == vote_of(avotes', req[w].qid, req[w].anon_hash[1])
           IN IF req'[w].voted[1]
              THEN \E r \in mine : r.answer_id = req[w].aid
              ELSE mine = {}]_vars

\* ----------------------------------------------------------------------
\* C30.  After the admin delete-question operation has removed question
\* q, no answer row, answer-vote row or question-vote row with
\* question_id = q remains.
\* ----------------------------------------------------------------------
C30_DeleteLeavesNoOrphans ==
    [][\A s \in Sessions, qid \in QuestionIds, authorization \in Authorizations :
        ( /\ qid \in questions
          /\ qid \notin questions'
          /\ delete_question(s, qid, authorization) )
        => /\ ~ \E a \in answers' : a.question_id = qid
           /\ ~ \E r \in avotes' : r.question_id = qid
           /\ ~ \E r \in qvotes' : r.question_id = qid]_vars

====
